---- MODULE Spec2Model ----
(***************************************************************************)
(* Model of summarizer/model/model_loader.py (read_config, fetch_model,    *)
(* download_model_from_workspace) and of the route table asserted by       *)
(* tests/test_app.py.                                                      *)
(*                                                                         *)
(* The file system is reduced to the three places the code touches: the    *)
(* base directory `cache`, the file cache/model_loader_config.json and the *)
(* artifact paths ./cache/<model_name>/<version>/<model_name>.  Every      *)
(* caller is a process with a program counter; one step is one file-system *)
(* or collaborator call of the source.                                     *)
(***************************************************************************)
EXTENDS Integers, Sequences, FiniteSets, TLC

VARIABLES env, dirExists, cfgFile, artifacts, pc, loc, hist

vars == <<env, dirExists, cfgFile, artifacts, pc, loc, hist>>

\* ------------------------------------------------------------- bounds
\* Calls (read_config, fetch_model, get_app) started in one behaviour.
MaxCalls == 3

Procs == {"p1", "p2"}

\* ------------------------------------------------ constants of the module
MODEL_LOADER_CONFIG_JSON == "model_loader_config.json"
CACHE == "cache"
default_model_name == "led-large-16384-arxiv"
default_subscription == "091ac194-317f-4880-9f66-a9c23f42cb60"
default_resource_group == "dev"
default_ml_workspace == "ecb-dev"
default_model_version == "None"

Fields == {"model_name", "subscription", "resource_group", "workspace", "model_version"}
EnvVars == {"MODEL_NAME", "SUBSCRIPTION", "RESOURCE_GROUP", "ML_WORKSPACE", "MODEL_VERSION"}

\* ------------------------------------------------------- Python values
\* None, and a dict given by its items (a function from its keys).
PyNone == [py |-> "None"]
PyDict(d) == [py |-> "dict", items |-> d]
IsDict(v) == v.py = "dict"

\* What dict.get(key) gives: the value, or None for a missing key.  None is
\* kept apart from every string, the string 'None' included.
NoneValue == "<None>"
dict_get(d, key) == IF key \in DOMAIN d THEN d[key] ELSE NoneValue

\* ----------------------------------------------------- the environment
\* A variable is unset, set to the empty string, or set to a value.
Unset == "<unset>"
EnvValues == {Unset, "", "foo"}
os_environ_get(e, name) == IF e[name] = Unset THEN NoneValue ELSE e[name]

\* Python truthiness of what os.environ.get returns: None and '' are false.
TruthyNoEmptyCheck(v) == v # NoneValue
Truthy(v) == v # NoneValue /\ v # ""

\* `os.environ.get(X) if os.environ.get(X) else default`
env_or_default(e, name, default) ==
    IF Truthy(os_environ_get(e, name)) THEN os_environ_get(e, name) ELSE default

\* The dict literal of read_config.
cfg_from_env_swapped(e) ==
    [model_name     |-> env_or_default(e, "MODEL_NAME", default_model_name),
     subscription   |-> env_or_default(e, "SUBSCRIPTION", default_subscription),
     resource_group |-> env_or_default(e, "ML_WORKSPACE", default_resource_group),
     workspace      |-> env_or_default(e, "RESOURCE_GROUP", default_ml_workspace),
     model_version  |-> env_or_default(e, "MODEL_VERSION", default_model_version)]
cfg_from_env(e) ==
    [model_name     |-> env_or_default(e, "MODEL_NAME", default_model_name),
     subscription   |-> env_or_default(e, "SUBSCRIPTION", default_subscription),
     resource_group |-> env_or_default(e, "RESOURCE_GROUP", default_resource_group),
     workspace      |-> env_or_default(e, "ML_WORKSPACE", default_ml_workspace),
     model_version  |-> env_or_default(e, "MODEL_VERSION", default_model_version)]

\* ------------------------------------------------------ files and JSON
\* The config file is absent, or holds a text: zero bytes (just opened for
\* writing), a cut-off text, the text `null`, or the text of an object.
NoFile == [txt |-> "absent"]
EmptyText == [txt |-> "empty"]
GarbageText == [txt |-> "garbage"]
NullText == [txt |-> "null"]
ObjectText(d) == [txt |-> "object", members |-> d]

path_exists_never(f) == FALSE
path_exists(f) == f # NoFile

\* json.dump of a dict of strings: the text of the object.
json_dump(d) == ObjectText(d)

\* json.load: the value of the text, or JSONDecodeError.
json_load(t) ==
    CASE t.txt = "object" -> [ok |-> TRUE, val |-> PyDict(t.members)]
      [] t.txt = "null"   -> [ok |-> TRUE, val |-> PyNone]
      [] OTHER            -> [ok |-> FALSE, exc |-> "JSONDecodeError"]

\* ------------------------------------------------------------- state
\* env        the process environment (os.environ)
\* dirExists  whether the directory `cache` exists
\* cfgFile    cache/model_loader_config.json: NoFile or its text
\* artifacts  the state of each artifact path ./cache/<name>/<version>/<name>
\* pc, loc    each caller's position and locals
\* hist       history: calls started, config writes, the first record
\*            written, the first record returned, whether `cache` was absent
\*            at the start
InitLoc ==
    [caller |-> "top", cfg |-> PyNone, ret |-> PyNone, exc |-> "",
     file0 |-> NoFile, dir0 |-> FALSE, wrote |-> 0,
     arg |-> PyNone, target |-> <<>>, hit |-> FALSE, wsget |-> 0,
     downloads |-> 0, dlArgs |-> <<>>, loaded |-> <<>>, routes |-> <<>>]

NoFail == [target |-> <<>>, before |-> "", left |-> ""]

InitHist ==
    [calls |-> 0, writes |-> 0, persisted |-> PyNone, first |-> PyNone,
     fresh |-> FALSE, lastFail |-> NoFail]

Idle(p) == pc[p] = "idle"

\* The caller takes the result (or the exception) and is free to call again.
Finished == {"rc_done", "rc_raised", "fm_done", "fm_raised", "app_done"}

\* An exception leaves read_config; inside fetch_model it leaves that too.
Raise(p, exc) ==
    /\ pc' = [pc EXCEPT ![p] = IF loc[p].caller = "fetch_model"
                                THEN "fm_raised" ELSE "rc_raised"]
    /\ loc' = [loc EXCEPT ![p].exc = exc]

\* --------------------------------------------------------- read_config
\* read_config(base_dir = CACHE), called by the user.
call_read_config(p) ==
    /\ Idle(p)
    /\ hist.calls < MaxCalls
    /\ pc' = [pc EXCEPT ![p] = "rc_exists"]
    /\ loc' = [loc EXCEPT ![p] = [InitLoc EXCEPT !.file0 = cfgFile,
                                                 !.dir0 = dirExists]]
    /\ hist' = [hist EXCEPT !.calls = @ + 1]
    /\ UNCHANGED <<env, dirExists, cfgFile, artifacts>>

\* `if path.exists(config_file):`
rc_exists_locked(p) ==
    /\ pc[p] = "rc_exists"
    /\ \A q \in Procs \ {p} :
          pc[q] \notin {"rc_load", "rc_env", "rc_direxists", "rc_mkdir",
                        "rc_open", "rc_dump"}
    /\ pc' = [pc EXCEPT ![p] = IF path_exists(cfgFile) THEN "rc_load" ELSE "rc_env"]
    /\ UNCHANGED <<env, dirExists, cfgFile, artifacts, loc, hist>>
rc_exists(p) ==
    /\ pc[p] = "rc_exists"
    /\ pc' = [pc EXCEPT ![p] = IF path_exists(cfgFile) THEN "rc_load" ELSE "rc_env"]
    /\ UNCHANGED <<env, dirExists, cfgFile, artifacts, loc, hist>>

\* `cfg = json.load(json_file)`, then `if cfg is None:`
rc_load_fallback(p) ==
    /\ pc[p] = "rc_load"
    /\ LET r == json_load(cfgFile) IN
         IF r.ok /\ r.val # PyNone
         THEN /\ pc' = [pc EXCEPT ![p] = "rc_return"]
              /\ loc' = [loc EXCEPT ![p].cfg = r.val]
         ELSE /\ pc' = [pc EXCEPT ![p] = "rc_env"]
              /\ loc' = loc
    /\ UNCHANGED <<env, dirExists, cfgFile, artifacts, hist>>
rc_load_merged(p) ==
    /\ pc[p] = "rc_load"
    /\ LET r == json_load(cfgFile) IN
         IF r.ok
         THEN /\ pc' = [pc EXCEPT ![p] = IF r.val = PyNone THEN "rc_env"
                                                            ELSE "rc_return"]
              /\ loc' = [loc EXCEPT ![p].cfg =
                            IF r.val = PyNone THEN r.val
                            ELSE PyDict([f \in Fields \cup DOMAIN r.val.items |->
                                           IF f \in DOMAIN r.val.items
                                           THEN r.val.items[f]
                                           ELSE cfg_from_env(env)[f]])]
         ELSE Raise(p, r.exc)
    /\ UNCHANGED <<env, dirExists, cfgFile, artifacts, hist>>
rc_load(p) ==
    /\ pc[p] = "rc_load"
    /\ LET r == json_load(cfgFile) IN
         IF r.ok
         THEN /\ pc' = [pc EXCEPT ![p] = IF r.val = PyNone THEN "rc_env"
                                                            ELSE "rc_return"]
              /\ loc' = [loc EXCEPT ![p].cfg = r.val]
         ELSE Raise(p, r.exc)
    /\ UNCHANGED <<env, dirExists, cfgFile, artifacts, hist>>

\* `cfg = {...}` from the environment and the defaults
rc_env(p) ==
    /\ pc[p] = "rc_env"
    /\ pc' = [pc EXCEPT ![p] = "rc_direxists"]
    /\ loc' = [loc EXCEPT ![p].cfg = PyDict(cfg_from_env(env))]
    /\ UNCHANGED <<env, dirExists, cfgFile, artifacts, hist>>

\* `if not path.exists(base_dir):`
rc_direxists(p) ==
    /\ pc[p] = "rc_direxists"
    /\ pc' = [pc EXCEPT ![p] = IF dirExists THEN "rc_open" ELSE "rc_mkdir"]
    /\ UNCHANGED <<env, dirExists, cfgFile, artifacts, loc, hist>>

\* `pathlib.Path(base_dir).mkdir(parents=True)`: exist_ok is False, so a
\* directory made in the meantime raises FileExistsError.
rc_mkdir(p) ==
    /\ pc[p] = "rc_mkdir"
    /\ IF dirExists
       THEN /\ Raise(p, "FileExistsError")
            /\ UNCHANGED dirExists
       ELSE /\ dirExists' = TRUE
            /\ pc' = [pc EXCEPT ![p] = "rc_open"]
            /\ loc' = loc
    /\ UNCHANGED <<env, cfgFile, artifacts, hist>>

\* `open(config_file, 'w')`: creates the file, or cuts it to zero bytes.
rc_open(p) ==
    /\ pc[p] = "rc_open"
    /\ cfgFile' = EmptyText
    /\ pc' = [pc EXCEPT ![p] = "rc_dump"]
    /\ UNCHANGED <<env, dirExists, artifacts, loc, hist>>

\* `json.dump(cfg, json_file)` and the close of the file
rc_dump(p) ==
    /\ pc[p] = "rc_dump"
    /\ cfgFile' = json_dump(loc[p].cfg.items)
    /\ pc' = [pc EXCEPT ![p] = "rc_return"]
    /\ loc' = [loc EXCEPT ![p].wrote = @ + 1]
    /\ hist' = [hist EXCEPT !.writes = @ + 1,
                            !.persisted = IF @ = PyNone THEN loc[p].cfg ELSE @]
    /\ UNCHANGED <<env, dirExists, artifacts>>

\* `return cfg`, to the user or to fetch_model
rc_return(p) ==
    /\ pc[p] = "rc_return"
    /\ IF loc[p].caller = "fetch_model"
       THEN /\ pc' = [pc EXCEPT ![p] = "fm_paths"]
            /\ loc' = loc
       ELSE /\ pc' = [pc EXCEPT ![p] = "rc_done"]
            /\ loc' = [loc EXCEPT ![p].ret = loc[p].cfg]
    /\ UNCHANGED <<env, dirExists, cfgFile, artifacts, hist>>

read_config(p) ==
    \/ rc_exists(p)
    \/ rc_load(p)
    \/ rc_env(p)
    \/ rc_direxists(p)
    \/ rc_mkdir(p)
    \/ rc_open(p)
    \/ rc_dump(p)
    \/ rc_return(p)

\* The caller has the result.  History: the first record a read_config call
\* returned; the last failed download stays on record until the next
\* fetch_model call has returned.
Return(p) ==
    /\ pc[p] \in Finished
    /\ pc' = [pc EXCEPT ![p] = "idle"]
    /\ loc' = [loc EXCEPT ![p] = InitLoc]
    /\ hist' = [hist EXCEPT
                  !.first = IF pc[p] = "rc_done" /\ @ = PyNone
                            THEN loc[p].ret ELSE @,
                  !.lastFail = IF pc[p] \in {"rc_done", "rc_raised", "app_done"}
                                  \/ loc[p].exc = "DownloadError"
                               THEN @ ELSE NoFail]
    /\ UNCHANGED <<env, dirExists, cfgFile, artifacts>>

\* The user sets or unsets an environment variable between calls.
SetEnv ==
    /\ \A p \in Procs : Idle(p)
    /\ \E name \in EnvVars, v \in EnvValues :
          /\ env[name] # v
          /\ env' = [env EXCEPT ![name] = v]
    /\ UNCHANGED <<dirExists, cfgFile, artifacts, pc, loc, hist>>

\* --------------------------------------------------------- fetch_model
\* An artifact path is ./cache/<model_name>/<version dir>/<model_name>; it
\* is named here by <<model_name, version dir>>.  Its state:
\*   absent    neither target_dir nor the path exists
\*   dironly   target_dir exists, the path below it does not
\*   partial   the path exists, its files are incomplete
\*   complete  the path exists and holds the whole model
ModelNames == {default_model_name, "foo"}
VersionDirs == {"None", "foo"}
Paths == ModelNames \X VersionDirs
ArtifactStates == {"absent", "dironly", "partial", "complete"}

\* `path.exists(downloaded_model_path)`
artifact_exists(a) == a \in {"partial", "complete"}

\* `model_version if model_version is not None else 'None'`
version_dir(cfg) ==
    IF dict_get(cfg, "model_version") # NoneValue
    THEN dict_get(cfg, "model_version") ELSE "None"

\* target_dir and downloaded_model_path
downloaded_model_path(cfg) == <<cfg["model_name"], version_dir(cfg)>>

\* The configurations a caller passes to fetch_model.
SuppliedCfgs ==
    { PyDict(cfg_from_env([n \in EnvVars |-> Unset])),
      PyDict([model_name |-> "foo", subscription |-> default_subscription,
              resource_group |-> default_resource_group,
              workspace |-> default_ml_workspace, model_version |-> "foo"]),
      PyDict([subscription |-> default_subscription]) }

\* fetch_model(cfg = None), called by the user with a configuration or none.
call_fetch_model(p) ==
    /\ Idle(p)
    /\ hist.calls < MaxCalls
    /\ \E arg \in SuppliedCfgs \cup {PyNone} :
          loc' = [loc EXCEPT ![p] = [InitLoc EXCEPT !.arg = arg]]
    /\ pc' = [pc EXCEPT ![p] = "fm_start"]
    /\ hist' = [hist EXCEPT !.calls = @ + 1]
    /\ UNCHANGED <<env, dirExists, cfgFile, artifacts>>

\* `auth = build_service_principal()`, `if cfg is None: cfg = read_config()`
fm_start(p) ==
    /\ pc[p] = "fm_start"
    /\ IF loc[p].arg = PyNone
       THEN /\ pc' = [pc EXCEPT ![p] = "rc_exists"]
            /\ loc' = [loc EXCEPT ![p].caller = "fetch_model",
                                  ![p].file0 = cfgFile,
                                  ![p].dir0 = dirExists]
       ELSE /\ pc' = [pc EXCEPT ![p] = "fm_paths"]
            /\ loc' = [loc EXCEPT ![p].cfg = loc[p].arg]
    /\ UNCHANGED <<env, dirExists, cfgFile, artifacts, hist>>

\* `target_dir = path.join(download_path, cfg['model_name'], ...)`:
\* cfg['model_name'] raises KeyError when the key is missing.
fm_paths(p) ==
    /\ pc[p] = "fm_paths"
    /\ LET cfg == loc[p].cfg.items IN
         IF "model_name" \in DOMAIN cfg
         THEN /\ pc' = [pc EXCEPT ![p] = "fm_exists"]
              /\ loc' = [loc EXCEPT ![p].target = downloaded_model_path(cfg)]
         ELSE /\ pc' = [pc EXCEPT ![p] = "fm_raised"]
              /\ loc' = [loc EXCEPT ![p].exc = "KeyError"]
    /\ UNCHANGED <<env, dirExists, cfgFile, artifacts, hist>>

\* `if not path.exists(downloaded_model_path):`
fm_exists_refresh(p) ==
    /\ pc[p] = "fm_exists"
    /\ pc' = [pc EXCEPT ![p] = "fm_wsget"]
    /\ loc' = [loc EXCEPT ![p].hit = artifact_exists(artifacts[loc[p].target])]
    /\ UNCHANGED <<env, dirExists, cfgFile, artifacts, hist>>
fm_exists(p) ==
    /\ pc[p] = "fm_exists"
    /\ LET hit == artifact_exists(artifacts[loc[p].target]) IN
         /\ pc' = [pc EXCEPT ![p] = IF hit THEN "fm_load" ELSE "fm_wsget"]
         /\ loc' = [loc EXCEPT ![p].hit = hit]
    /\ UNCHANGED <<env, dirExists, cfgFile, artifacts, hist>>

\* `ws = Workspace.get(...)`: the remote lookup answers or raises.
fm_wsget(p) ==
    /\ pc[p] = "fm_wsget"
    /\ \E ok \in BOOLEAN :
          /\ pc' = [pc EXCEPT ![p] = IF ok THEN "fm_download" ELSE "fm_raised"]
          /\ loc' = [loc EXCEPT ![p].wsget = @ + 1,
                                ![p].exc = IF ok THEN "" ELSE "WorkspaceError"]
    /\ UNCHANGED <<env, dirExists, cfgFile, artifacts, hist>>

\* What download_model_from_workspace hands to Model(...): fetch_model passes
\* no model_version, so the parameter keeps its default, None.
download_args(cfg) ==
    [name |-> dict_get(cfg, "model_name"), version |-> NoneValue]

\* What a download that fails can leave at a path that was in state a: what
\* was there, or the files it got as far as writing.
LeftBehind(a) ==
    {a} \cup (IF a = "absent" THEN {"dironly", "partial"} ELSE {"partial"})

\* `download_model_from_workspace(workspace=ws, model_name=..., target_dir=...)`
\* -> `aml_model.download(target_dir=target_dir, exist_ok=True)`: the download
\* completes, or raises at any point of the transfer.
fm_download_cleanup(p) ==
    /\ pc[p] = "fm_download"
    /\ LET t == loc[p].target IN
       \/ /\ artifacts' = [artifacts EXCEPT ![t] = "complete"]
          /\ dirExists' = TRUE
          /\ pc' = [pc EXCEPT ![p] = "fm_load"]
          /\ loc' = [loc EXCEPT ![p].downloads = @ + 1,
                                ![p].dlArgs = download_args(loc[p].cfg.items)]
          /\ hist' = hist
       \/ \E left \in LeftBehind(artifacts[t]) :
             /\ artifacts' = [artifacts EXCEPT ![t] = "absent"]
             /\ dirExists' = (dirExists \/ left # "absent")
             /\ pc' = [pc EXCEPT ![p] = "fm_raised"]
             /\ loc' = [loc EXCEPT ![p].downloads = @ + 1,
                                   ![p].dlArgs = download_args(loc[p].cfg.items),
                                   ![p].exc = "DownloadError"]
             /\ hist' = [hist EXCEPT !.lastFail =
                            [target |-> t, before |-> artifacts[t], left |-> left]]
    /\ UNCHANGED <<env, cfgFile>>
fm_download(p) ==
    /\ pc[p] = "fm_download"
    /\ LET t == loc[p].target IN
       \/ /\ artifacts' = [artifacts EXCEPT ![t] = "complete"]
          /\ dirExists' = TRUE
          /\ pc' = [pc EXCEPT ![p] = "fm_load"]
          /\ loc' = [loc EXCEPT ![p].downloads = @ + 1,
                                ![p].dlArgs = download_args(loc[p].cfg.items)]
          /\ hist' = hist
       \/ \E left \in LeftBehind(artifacts[t]) :
             /\ artifacts' = [artifacts EXCEPT ![t] = left]
             /\ dirExists' = (dirExists \/ left # "absent")
             /\ pc' = [pc EXCEPT ![p] = "fm_raised"]
             /\ loc' = [loc EXCEPT ![p].downloads = @ + 1,
                                   ![p].dlArgs = download_args(loc[p].cfg.items),
                                   ![p].exc = "DownloadError"]
             /\ hist' = [hist EXCEPT !.lastFail =
                            [target |-> t, before |-> artifacts[t], left |-> left]]
    /\ UNCHANGED <<env, cfgFile>>

\* `LEDForConditionalGeneration.from_pretrained(downloaded_model_path)`,
\* `LEDTokenizer.from_pretrained(...)`: the loader reads the path; what it
\* makes of incomplete files is its own business.
fm_load(p) ==
    /\ pc[p] = "fm_load"
    /\ \E ok \in (CASE artifacts[loc[p].target] = "complete" -> {TRUE}
                    [] artifacts[loc[p].target] = "partial" -> {TRUE, FALSE}
                    [] OTHER -> {FALSE}) :
          /\ pc' = [pc EXCEPT ![p] = IF ok THEN "fm_done" ELSE "fm_raised"]
          /\ loc' = [loc EXCEPT ![p].loaded = loc[p].target,
                                ![p].exc = IF ok THEN "" ELSE "OSError",
                                ![p].ret = IF ok THEN loc[p].cfg ELSE PyNone]
    /\ UNCHANGED <<env, dirExists, cfgFile, artifacts, hist>>

fetch_model(p) ==
    \/ fm_start(p)
    \/ fm_paths(p)
    \/ fm_exists(p)
    \/ fm_wsget(p)
    \/ fm_download(p)
    \/ fm_load(p)

\* -------------------------------------------------------------- get_app
\* The route table of the web application: the four API description routes
\* the framework adds, then the application's routes in declaration order.
get_app_routes_reordered ==
    <<"openapi", "swagger_ui_html", "swagger_ui_redirect", "redoc_html",
      "index_html", "get_model_form", "upload_file", "load_model", "get_readiness">>
get_app_routes ==
    <<"openapi", "swagger_ui_html", "swagger_ui_redirect", "redoc_html",
      "index_html", "upload_file", "get_model_form", "load_model", "get_readiness">>

\* `app = get_app()`
call_get_app(p) ==
    /\ Idle(p)
    /\ hist.calls < MaxCalls
    /\ pc' = [pc EXCEPT ![p] = "app_done"]
    /\ loc' = [loc EXCEPT ![p] = [InitLoc EXCEPT !.routes = get_app_routes]]
    /\ hist' = [hist EXCEPT !.calls = @ + 1]
    /\ UNCHANGED <<env, dirExists, cfgFile, artifacts>>

\* The assertions of test_that_all_routes_are_included (routes[4] of the
\* test is the fifth route).
test_that_all_routes_are_included(routes) ==
    /\ Len(routes) = 9
    /\ routes[5] = "index_html"
    /\ routes[6] = "upload_file"
    /\ routes[7] = "get_model_form"
    /\ routes[8] = "load_model"
    /\ routes[9] = "get_readiness"

\* ------------------------------------------------------ specifications
\* Config files found on disk before the first call: cut off, `null`, an
\* object with one key, an object with an empty value, a full record.
InitFiles ==
    { GarbageText,
      NullText,
      ObjectText([model_name |-> "bar"]),
      ObjectText([model_name |-> "bar", subscription |-> "sub", resource_group |-> "rg",
                  workspace |-> "ws", model_version |-> ""]),
      ObjectText([model_name |-> "bar", subscription |-> "sub", resource_group |-> "rg",
                  workspace |-> "ws", model_version |-> "7"]) }

InitDisk ==
    \/ /\ dirExists = FALSE
       /\ cfgFile = NoFile
    \/ /\ dirExists = TRUE
       /\ cfgFile \in {NoFile} \cup InitFiles

InitRest ==
    /\ pc = [p \in Procs |-> "idle"]
    /\ loc = [p \in Procs |-> InitLoc]
    /\ hist = [InitHist EXCEPT !.fresh = ~dirExists]

\* One caller at a time: a call starts and runs while nobody else is in one.
Alone(p) == \A q \in Procs \ {p} : Idle(q)

\* The configuration resolver on its own, called again and again by one
\* caller at a time, the environment changing between the calls.
Init ==
    /\ env \in [EnvVars -> EnvValues]
    /\ InitDisk
    /\ artifacts = [t \in Paths |-> "absent"]
    /\ InitRest

\* A call by a caller who has the program to itself.
only_read_config(p) == Alone(p) /\ call_read_config(p)
only_fetch_model(p) == Alone(p) /\ call_fetch_model(p)
only_get_app(p) == Alone(p) /\ call_get_app(p)

Next ==
    \/ \E p \in Procs :
          \/ only_read_config(p)
          \/ only_get_app(p)
          \/ read_config(p)
          \/ Return(p)
    \/ SetEnv

Spec == Init /\ [][Next]_vars

\* The model fetcher, one caller at a time, under a fixed environment that
\* names the model and the version or leaves them to the defaults; the disk
\* may hold artifacts of earlier runs, whole or cut short.
InitFilesFetch == {GarbageText, ObjectText([model_name |-> "foo"])}

InitFetch ==
    /\ env \in { e \in [EnvVars -> {Unset, "foo"}] :
                    \A n \in EnvVars \ {"MODEL_NAME", "MODEL_VERSION"} : e[n] = Unset }
    /\ \/ /\ dirExists = FALSE
          /\ cfgFile = NoFile
          /\ artifacts = [t \in Paths |-> "absent"]
       \/ /\ dirExists = TRUE
          /\ cfgFile \in {NoFile} \cup InitFilesFetch
          /\ \E t \in Paths, a \in {"absent", "partial", "complete"} :
                artifacts = [u \in Paths |-> IF u = t THEN a ELSE "absent"]
    /\ InitRest

NextFetch ==
    \E p \in Procs :
       \/ only_fetch_model(p)
       \/ fetch_model(p)
       \/ read_config(p)
       \/ Return(p)

SpecFetch == InitFetch /\ [][NextFetch]_vars

\* Two callers at once, sharing the cache directory: every step of one may
\* fall between two steps of the other.
InitConc ==
    /\ env = [n \in EnvVars |-> Unset]
    /\ dirExists \in BOOLEAN
    /\ cfgFile = NoFile
    /\ artifacts = [t \in Paths |-> "absent"]
    /\ InitRest

NextConc ==
    \E p \in Procs :
       \/ call_read_config(p)
       \/ call_fetch_model(p)
       \/ fetch_model(p)
       \/ read_config(p)
       \/ Return(p)

SpecConc == InitConc /\ [][NextConc]_vars

\* ---------------------------------------------- the configuration resolver
\* The environment variable and the default of each field of the record.
EnvVarOf(f) ==
    CASE f = "model_name"     -> "MODEL_NAME"
      [] f = "subscription"   -> "SUBSCRIPTION"
      [] f = "resource_group" -> "RESOURCE_GROUP"
      [] f = "workspace"      -> "ML_WORKSPACE"
      [] f = "model_version"  -> "MODEL_VERSION"

DefaultOf(f) ==
    CASE f = "model_name"     -> default_model_name
      [] f = "subscription"   -> default_subscription
      [] f = "resource_group" -> default_resource_group
      [] f = "workspace"      -> default_ml_workspace
      [] f = "model_version"  -> default_model_version

\* Positions inside a read_config call.
InReadConfig ==
    {"rc_exists", "rc_load", "rc_env", "rc_direxists", "rc_mkdir", "rc_open",
     "rc_dump", "rc_return"}

\* The file the call found parses, to the value v.
Parsed(f) == path_exists(f) /\ json_load(f).ok

AllFieldsNonEmpty(v) ==
    /\ IsDict(v)
    /\ Fields \subseteq DOMAIN v.items
    /\ \A f \in Fields : v.items[f] \notin {"", NoneValue}

\* C1, as stated: a read_config call that found a config file holding
\* parseable JSON returns the file's contents and leaves the file and the
\* directory as they were.
C1_VerbatimAnyJson ==
    \A p \in Procs :
       (pc[p] = "rc_done" /\ Parsed(loc[p].file0))
          => /\ loc[p].ret = json_load(loc[p].file0).val
             /\ loc[p].wrote = 0
             /\ cfgFile = loc[p].file0
             /\ dirExists = loc[p].dir0

\* C1, amended: a read_config call that found a config file holding parseable
\* JSON other than `null` writes nothing at any point of the call (the file
\* and the directory stay as they were) and returns the file's contents,
\* whatever the environment holds.
C1_VerbatimNonNull ==
    \A p \in Procs :
       (/\ pc[p] \in InReadConfig \cup {"rc_done", "rc_raised"}
        /\ Parsed(loc[p].file0)
        /\ json_load(loc[p].file0).val # PyNone)
          => /\ loc[p].wrote = 0
             /\ cfgFile = loc[p].file0
             /\ dirExists = loc[p].dir0
             /\ pc[p] # "rc_raised"
             /\ pc[p] = "rc_done" => loc[p].ret = json_load(loc[p].file0).val

C1_Witness ==
    \E p \in Procs :
       /\ pc[p] = "rc_done"
       /\ loc[p].file0 = ObjectText([model_name |-> "bar"])
       /\ loc[p].ret = PyDict([model_name |-> "bar"])
       /\ env["MODEL_NAME"] = "foo"
       /\ env["SUBSCRIPTION"] = "foo"

\* C2: a read_config call that found no config file returns, field by field,
\* the environment variable if it is set and not empty and the default
\* otherwise; afterwards the directory exists and the file holds exactly the
\* returned record.
C2_EnvOrDefault ==
    \A p \in Procs :
       (pc[p] = "rc_done" /\ loc[p].file0 = NoFile)
          => /\ IsDict(loc[p].ret)
             /\ DOMAIN loc[p].ret.items = Fields
             /\ \A f \in Fields :
                   loc[p].ret.items[f] =
                      IF env[EnvVarOf(f)] \in {Unset, ""} THEN DefaultOf(f)
                                                          ELSE env[EnvVarOf(f)]
             /\ dirExists
             /\ cfgFile # NoFile
             /\ json_load(cfgFile) = [ok |-> TRUE, val |-> loc[p].ret]

C2_Witness ==
    \E p \in Procs :
       /\ pc[p] = "rc_done"
       /\ loc[p].file0 = NoFile
       /\ ~loc[p].dir0
       /\ env["MODEL_NAME"] = "foo"
       /\ env["SUBSCRIPTION"] = ""
       /\ env["RESOURCE_GROUP"] = Unset
       /\ env["ML_WORKSPACE"] = "foo"
       /\ loc[p].ret.items["model_name"] = "foo"
       /\ loc[p].ret.items["subscription"] = default_subscription

\* C3: starting from no base directory, the config file is written once, by
\* the first call; every call returns the record that write persisted, and a
\* call after the first returns what the first returned and writes nothing,
\* whatever the environment has become.
C3_Idempotent ==
    hist.fresh =>
       /\ hist.writes <= 1
       /\ \A p \in Procs :
             pc[p] = "rc_done" =>
                /\ loc[p].ret = hist.persisted
                /\ json_load(cfgFile) = [ok |-> TRUE, val |-> loc[p].ret]
                /\ hist.first # PyNone =>
                      /\ loc[p].ret = hist.first
                      /\ loc[p].wrote = 0

C3_Witness ==
    /\ hist.fresh
    /\ \E p \in Procs :
          /\ pc[p] = "rc_done"
          /\ hist.first # PyNone
          /\ loc[p].ret = hist.first
          /\ hist.first.items["model_name"] = default_model_name
          /\ env["MODEL_NAME"] = "foo"

C7_Routes ==
    \A p \in Procs :
       pc[p] = "app_done" =>
          /\ Len(loc[p].routes) = 9
          /\ SubSeq(loc[p].routes, 5, 9) =
                <<"index_html", "upload_file", "get_model_form", "load_model",
                  "get_readiness">>
          /\ test_that_all_routes_are_included(loc[p].routes)

C7_Witness == \E p \in Procs : pc[p] = "app_done" /\ Len(loc[p].routes) = 9

\* C8: a read_config call that found a config file that does not parse
\* raises the parse error: it never reaches the environment path, returns no
\* record, and leaves the file as it was.
C8_ParseErrorPropagates ==
    \A p \in Procs :
       (/\ pc[p] \in InReadConfig \cup {"rc_done", "rc_raised"}
        /\ path_exists(loc[p].file0)
        /\ ~json_load(loc[p].file0).ok)
          => /\ pc[p] \in {"rc_exists", "rc_load", "rc_raised"}
             /\ pc[p] = "rc_raised" => loc[p].exc = "JSONDecodeError"
             /\ loc[p].ret = PyNone
             /\ loc[p].wrote = 0
             /\ cfgFile = loc[p].file0

C8_Witness ==
    \E p \in Procs :
       /\ pc[p] = "rc_raised"
       /\ loc[p].file0 = GarbageText
       /\ cfgFile = GarbageText
       /\ loc[p].exc = "JSONDecodeError"

\* ------------------------------------------------------ the model fetcher
\* Positions of a fetch_model call after its existence check.
AfterExists == {"fm_wsget", "fm_download", "fm_load", "fm_done", "fm_raised"}

\* C4: while the artifact path exists a fetch_model call is at no remote
\* operation, and a call whose check found the path has made no workspace
\* lookup and no download and loads from that path.
C4_CacheHitNoRemote ==
    \A p \in Procs :
       /\ pc[p] \in {"fm_wsget", "fm_download"} =>
             ~artifact_exists(artifacts[loc[p].target])
       /\ (pc[p] \in {"fm_load", "fm_done", "fm_raised"} /\ loc[p].hit) =>
             /\ loc[p].wsget = 0
             /\ loc[p].downloads = 0
             /\ loc[p].dlArgs = <<>>
             /\ pc[p] = "fm_done" => loc[p].loaded = loc[p].target

C4_Witness ==
    \E p \in Procs :
       /\ pc[p] = "fm_done"
       /\ loc[p].hit
       /\ loc[p].arg = PyNone
       /\ loc[p].loaded = <<"foo", "None">>
       /\ artifacts[<<"foo", "None">>] = "complete"
       /\ loc[p].wsget = 0
       /\ loc[p].downloads = 0

\* The version a configuration asks for: None when it has no model_version
\* or the default 'None', which both stand for the latest version.
ConfiguredVersion(cfg) ==
    IF dict_get(cfg, "model_version") \in {NoneValue, default_model_version}
    THEN NoneValue ELSE dict_get(cfg, "model_version")

\* C5: a fetch_model call that downloads makes one download call, after the
\* workspace lookup and before the load, and that call carries the configured
\* model name and the configured model version.
C5_DownloadCarriesVersion ==
    \A p \in Procs :
       loc[p].downloads >= 1 =>
          /\ loc[p].downloads = 1
          /\ loc[p].wsget = 1
          /\ ~loc[p].hit
          /\ loc[p].dlArgs.name = loc[p].cfg.items["model_name"]
          /\ loc[p].dlArgs.version = ConfiguredVersion(loc[p].cfg.items)

\* C9, as stated: after a failed download, the next fetch_model call for the
\* same artifact path is never at the workspace lookup or at the download.
C9_NextCallAlwaysHits ==
    \A p \in Procs :
       ~(/\ hist.lastFail # NoFail
         /\ pc[p] \in {"fm_wsget", "fm_download"}
         /\ loc[p].target = hist.lastFail.target)

\* C9, amended: a fetch_model call whose download fails raises after one
\* lookup and one download, with what the download left still on disk; the
\* next fetch_model call for the same artifact path finds a cache hit exactly
\* when the artifact path itself was left on disk, and then makes no lookup
\* and no download; when nothing or only target_dir was left, it goes to the
\* lookup again.
C9_HitIffPathLeft ==
    \A p \in Procs :
       /\ (pc[p] = "fm_raised" /\ loc[p].exc = "DownloadError") =>
             /\ loc[p].downloads = 1
             /\ loc[p].wsget = 1
             /\ loc[p].ret = PyNone
             /\ hist.lastFail.target = loc[p].target
             /\ artifacts[loc[p].target] = hist.lastFail.left
             /\ hist.lastFail.before # "absent" => hist.lastFail.left # "absent"
       /\ (/\ hist.lastFail # NoFail
           /\ pc[p] \in AfterExists
           /\ loc[p].exc # "DownloadError"
           /\ loc[p].target = hist.lastFail.target) =>
             /\ loc[p].hit = artifact_exists(hist.lastFail.left)
             /\ loc[p].hit => (loc[p].wsget = 0 /\ loc[p].downloads = 0)
             /\ ~loc[p].hit => pc[p] \notin {"fm_load", "fm_done"} \/ loc[p].downloads = 1

C9_Witness ==
    \E p \in Procs :
       /\ hist.lastFail # NoFail
       /\ hist.lastFail.left = "partial"
       /\ pc[p] = "fm_load"
       /\ loc[p].target = hist.lastFail.target
       /\ loc[p].hit
       /\ loc[p].wsget = 0
       /\ loc[p].downloads = 0

\* ---------------------------------------------------------- concurrency
\* C10: nothing guards the existence checks or the writes that follow them:
\* whatever the other caller is doing, a caller at the check of the config
\* file or of the artifact path can make it, and a caller that found them
\* absent can go on to open the config file for writing and to download.
C10_NoLock ==
    \A p \in Procs :
       /\ pc[p] = "rc_exists" => ENABLED rc_exists(p)
       /\ pc[p] = "rc_open" => ENABLED rc_open(p)
       /\ pc[p] = "fm_exists" => ENABLED fm_exists(p)
       /\ pc[p] = "fm_download" => ENABLED fm_download(p)

\* Both callers found no config file and both wrote it; both then found the
\* artifact path absent and both are at the download into the same target.
C10_Witness ==
    /\ hist.writes = 2
    /\ \A p \in Procs :
          /\ pc[p] = "fm_download"
          /\ loc[p].file0 = NoFile
          /\ loc[p].wrote = 1
          /\ ~loc[p].hit
          /\ loc[p].target = <<default_model_name, "None">>

====
